---- MODULE Spec2Model ----
(***************************************************************************)
(* Model of @struktos/adapter-nestjs: the request lifecycle middleware     *)
(* (StruktosMiddleware.use), the authorization guard (StruktosAuthGuard)   *)
(* and the decorators that declare its requirements.                       *)
(*                                                                         *)
(* JavaScript's undefined/null is the string Undefined; an optional array  *)
(* is a record [has, list] so that every value keeps one type.  Principals *)
(* are named by a string and their fields are given by operators.          *)
(***************************************************************************)
EXTENDS Naturals, Sequences, FiniteSets

\* Number of requests in flight at once in the lifecycle specification.
MaxRequests == 2

Requests == 1..MaxRequests

Undefined == "undefined"

-----------------------------------------------------------------------------
(* Principals (interface User) *)

UserNames == {"admin", "john", "mod", "bare", "svc"}

UserIdOf(u) ==
  CASE u = "admin" -> "user-1"
    [] u = "john"  -> "user-2"
    [] u = "mod"   -> "user-3"
    [] u = "svc"   -> "user-5"
    [] OTHER       -> "user-4"

\* user.roles; has = FALSE is a principal without the roles property.
UserRoles(u) ==
  CASE u = "admin" -> [has |-> TRUE, list |-> <<"Admin", "User">>]
    [] u = "john"  -> [has |-> TRUE, list |-> <<"User">>]
    [] u = "mod"   -> [has |-> TRUE, list |-> <<"Moderator">>]
    [] OTHER       -> [has |-> FALSE, list |-> <<>>]

\* user.claims; has = FALSE is a principal without the claims property.
UserClaims(u) ==
  CASE u = "admin" -> [has |-> TRUE,
                       list |-> << [type |-> "permission", value |-> "write:documents"],
                                   [type |-> "department", value |-> "engineering"] >>]
    [] u = "john"  -> [has |-> TRUE,
                       list |-> << [type |-> "permission", value |-> "read:documents"] >>]
    [] u = "mod"   -> [has |-> TRUE,
                       list |-> << [type |-> "permission", value |-> "write:documents"] >>]
    [] u = "svc"   -> [has |-> TRUE,
                       list |-> << [type |-> "department", value |-> "engineering"] >>]
    [] OTHER       -> [has |-> FALSE, list |-> <<>>]

\* The bearer tokens the authentication provider knows, and the principal of each.
TokenSeq == <<"admin-token", "user-token", "mod-token", "bare-token">>

Tokens == {TokenSeq[i] : i \in 1..Len(TokenSeq)}

TokenUser(t) ==
  CASE t = "admin-token" -> "admin"
    [] t = "user-token"  -> "john"
    [] t = "mod-token"   -> "mod"
    [] OTHER             -> "bare"

-----------------------------------------------------------------------------
(* Decorators: metadata attached to one target (an operation or its group) *)

\* `applied` lists the RequireClaim decorators written on the target, in the
\* order they are applied (the one nearest the method first); the reflector
\* does not see it.
NoMetadata ==
  [public |-> [has |-> FALSE],
   roles  |-> [has |-> FALSE, list |-> <<>>],
   claims |-> [has |-> FALSE, isArray |-> FALSE, list |-> <<>>],
   applied |-> <<>>]

\* Roles(...roles) = SetMetadata(STRUKTOS_ROLES_KEY, roles)
Roles(roles, target) ==
  [target EXCEPT !.roles = [has |-> TRUE, list |-> roles]]

\* RequireClaim(type, value?) = SetMetadata(STRUKTOS_CLAIMS_KEY, {type, value})
RequireClaim(type, hasValue, value, target) ==
  [target EXCEPT !.claims =
     [has |-> TRUE, isArray |-> FALSE,
      list |-> << [type |-> type, hasValue |-> hasValue, value |-> value] >>],
     !.applied = Append(@, [type |-> type, hasValue |-> hasValue, value |-> value])]

\* RequireClaims(claims) = SetMetadata(STRUKTOS_CLAIMS_KEY, claims)
RequireClaims(claims, target) ==
  [target EXCEPT !.claims = [has |-> TRUE, isArray |-> TRUE, list |-> claims]]

\* Public() = SetMetadata(STRUKTOS_PUBLIC_KEY, true)
Public(target) ==
  [target EXCEPT !.public = [has |-> TRUE]]

\* AuthOptions: each field given or not.
NoAuthOptions ==
  [roles  |-> [has |-> FALSE, list |-> <<>>],
   claim  |-> [has |-> FALSE,
               req |-> [type |-> "", hasValue |-> FALSE, value |-> Undefined]],
   claims |-> [has |-> FALSE, list |-> <<>>]]

\* Auth(options) = applyDecorators(...decorators), the decorators pushed in
\* the order Roles, RequireClaim, RequireClaims and applied in that order.
Auth(options, target) ==
  LET t1 == IF options.roles.has /\ Len(options.roles.list) > 0
              THEN Roles(options.roles.list, target) ELSE target
      t2 == IF options.claim.has
              THEN RequireClaim(options.claim.req.type, options.claim.req.hasValue,
                                options.claim.req.value, t1)
              ELSE t1
  IN IF options.claims.has /\ Len(options.claims.list) > 0
       THEN RequireClaims(options.claims.list, t2) ELSE t2

\* Mutant: only the operation's own metadata is read.
GetFromOperationOnly(key, m) == m.op[key]

\* Mutant: the group's metadata wins over the operation's.
GetAllAndOverrideGroupFirst(key, m) ==
  IF m.grp[key].has THEN m.grp[key] ELSE m.op[key]

\* Mutant: an operation that declares roles or claims replaces the group's
\* declarations as a whole.
GetAllAndOverrideWholeTarget(key, m) ==
  IF m.op[key].has \/ m.op.roles.has \/ m.op.claims.has THEN m.op[key] ELSE m.grp[key]

\* Mutant: an empty list at the operation does not count as a declaration.
GetAllAndOverrideNonEmpty(key, m) ==
  IF m.op[key].has /\ (key = "public" \/ Len(m.op[key].list) > 0)
    THEN m.op[key] ELSE m.grp[key]

\* reflector.getAllAndOverride(key, [handler, class]): the first target, the
\* operation before its group, that defines the key.
GetAllAndOverride(key, m) ==
  IF m.op[key].has THEN m.op[key] ELSE m.grp[key]

ClaimPermWrite == [type |-> "permission", hasValue |-> TRUE, value |-> "write:documents"]
ClaimDeptEng   == [type |-> "department", hasValue |-> TRUE, value |-> "engineering"]
ClaimDeptAny   == [type |-> "department", hasValue |-> FALSE, value |-> Undefined]

\* The options the Auth decorator is used with.
AuthOptionsUsed ==
  { [NoAuthOptions EXCEPT !.roles = [has |-> TRUE, list |-> <<"Admin">>],
                          !.claim = [has |-> TRUE, req |-> ClaimDeptEng]],
    [NoAuthOptions EXCEPT !.claim = [has |-> TRUE, req |-> ClaimDeptEng],
                          !.claims = [has |-> TRUE, list |-> <<ClaimPermWrite>>]],
    [NoAuthOptions EXCEPT !.roles = [has |-> TRUE, list |-> <<"Admin", "Moderator">>],
                          !.claims = [has |-> TRUE,
                                      list |-> <<ClaimPermWrite, ClaimDeptEng>>]] }

-----------------------------------------------------------------------------
(* StruktosAuthGuard: pure helpers *)

\* array.includes(x)
Includes(list, x) == \E i \in 1..Len(list) : list[i] = x

\* Mutant: every required role must be held.
CheckRolesEvery(u, requiredRoles) ==
  IF ~UserRoles(u).has \/ Len(UserRoles(u).list) = 0
    THEN FALSE
    ELSE \A i \in 1..Len(requiredRoles) : Includes(UserRoles(u).list, requiredRoles[i])

\* checkRoles(user, requiredRoles)
CheckRoles(u, requiredRoles) ==
  IF ~UserRoles(u).has \/ Len(UserRoles(u).list) = 0
    THEN FALSE
    ELSE \E i \in 1..Len(requiredRoles) : Includes(UserRoles(u).list, requiredRoles[i])

\* The callback of user.claims.some(...) for one requirement.
ClaimMatches(claim, requirement) ==
  IF claim.type # requirement.type
    THEN FALSE
    ELSE IF requirement.hasValue
           THEN claim.value = requirement.value
           ELSE TRUE

\* Mutant: one satisfied requirement is enough.
CheckClaimsSome(u, requiredClaims) ==
  IF ~UserClaims(u).has \/ Len(UserClaims(u).list) = 0
    THEN FALSE
    ELSE \E i \in 1..Len(requiredClaims.list) :
           \E j \in 1..Len(UserClaims(u).list) :
             ClaimMatches(UserClaims(u).list[j], requiredClaims.list[i])

\* checkClaims(user, requiredClaims)
CheckClaims(u, requiredClaims) ==
  IF ~UserClaims(u).has \/ Len(UserClaims(u).list) = 0
    THEN FALSE
    ELSE \A i \in 1..Len(requiredClaims.list) :
           \E j \in 1..Len(UserClaims(u).list) :
             ClaimMatches(UserClaims(u).list[j], requiredClaims.list[i])

\* The text of a denial, as the list of the things it names.
RolesText(requiredRoles) == [i \in 1..Len(requiredRoles) |-> <<requiredRoles[i]>>]

ClaimsText(requiredClaims) ==
  [i \in 1..Len(requiredClaims.list) |->
     << requiredClaims.list[i].type,
        IF requiredClaims.list[i].hasValue /\ requiredClaims.list[i].value # ""
          THEN requiredClaims.list[i].value ELSE "*" >>]

Pending == [kind |-> "pending", what |-> "none", names |-> <<>>]
Allow == [kind |-> "allow", what |-> "none", names |-> <<>>]
Unauthenticated == [kind |-> "Unauthenticated", what |-> "none", names |-> <<>>]
Forbidden(what, names) == [kind |-> "Forbidden", what |-> what, names |-> names]

-----------------------------------------------------------------------------
(* State *)

VARIABLES
  phase,               \* per request: where its processing stands
  meta,                \* per request: [op, grp] metadata of the routed operation
  header,              \* per request: request.headers.authorization, split at ' '
  reqUser,             \* per request: request.user
  authService,         \* whether AUTH_SERVICE is injected into the guard
  cancellationOption,  \* enableCancellation as given to the constructor
  enableCancellation,  \* this.options.enableCancellation
  store,               \* the context records, one per request that entered use
  scope,               \* per request: the records its continuation chain sees
  listeners,           \* per request: the listeners use registered and not removed
  fired,               \* per request: the transport events emitted so far
  connLost,            \* per request: the client went away before the response
  providerCalls,       \* per request: calls of authService.validateToken
  settled,             \* per request: what validateToken settled as, once awaited
  outcome,             \* per request: what StruktosAuthGuard returned or threw
  rolesOutcome,        \* per request: what StruktosRolesGuard returned or threw
  claimsOutcome,       \* per request: what StruktosClaimsGuard returned or threw
  guardRuns,           \* per request: runs of StruktosAuthGuard.canActivate begun
  logger,              \* whether STRUKTOS_LOGGER is injected into the interceptor
  log,                 \* per request: the calls the interceptor made on the logger
  handled,             \* per request: what the stream of next.handle() produced
  delivered,           \* per request: what the stream intercept returned produced
  responseHeaders,     \* per request: the headers set on the response
  trace                \* per request: callbacks and calls made by the middleware

vars == <<phase, meta, header, reqUser, authService, cancellationOption,
          enableCancellation, store,
          scope, listeners, fired, connLost, providerCalls, settled, outcome,
          rolesOutcome, claimsOutcome, guardRuns,
          logger, log, handled, delivered, responseHeaders, trace>>

\* What is set up before the requests arrive.
config == <<meta, header, authService, cancellationOption, enableCancellation,
            logger>>

\* What StruktosContextInterceptor writes.
icptVars == <<log, handled, delivered, responseHeaders>>

\* options?.enableCancellation ?? true, the option being "true", "false" or
\* "omitted".
EnableCancellationDefaultFalse(option) == option = "true"

EnableCancellation(option) == IF option = "omitted" THEN TRUE ELSE option = "true"

\* A context record before use fills it.
EmptyRecord ==
  [traceId |-> Undefined, timestamp |-> Undefined,
   user |-> Undefined, userId |-> Undefined, hasRoles |-> FALSE, roles |-> <<>>,
   cancelled |-> FALSE]

\* RequestContext.current(): the record of the calling continuation, if any.
HasCurrent(r) == scope[r] # {}

Current(r) == store[CHOOSE k \in scope[r] : TRUE]

NoHeader == [has |-> FALSE, parts |-> <<>>]

Bearer(t) == [has |-> TRUE, parts |-> <<"Bearer", t>>]

\* How many times an event name occurs in a request's trace.
RECURSIVE Count(_, _)
Count(seq, e) ==
  IF seq = <<>> THEN 0
  ELSE (IF Head(seq) = e THEN 1 ELSE 0) + Count(Tail(seq), e)

\* Position of the first occurrence of e in seq; Len(seq) + 1 if there is none.
RECURSIVE IndexOf(_, _)
IndexOf(seq, e) ==
  IF seq = <<>> THEN 1
  ELSE IF Head(seq) = e THEN 1 ELSE 1 + IndexOf(Tail(seq), e)

-----------------------------------------------------------------------------
(* StruktosMiddleware.use *)

\* RequestContext.run(contextData, callback): the callback and every
\* continuation scheduled from it see the new record and no other.
RunScope(r) == [scope EXCEPT ![r] = {r}]

\* Mutant: next() is called before the context is set up.
UseTraceNextFirst(hasContext, cancellation) ==
  <<"next">>
  \o (IF hasContext
        THEN <<"onContextCreated">>
             \o (IF cancellation
                   THEN <<"on:close", "on:aborted", "on:finish:cleanup">>
                   ELSE <<>>)
             \o <<"on:finish:destroyed">>
        ELSE <<>>)

\* Mutant: next() is called only when a context was obtained.
UseTraceNextInsideIf(hasContext, cancellation) ==
  IF hasContext
    THEN <<"onContextCreated">>
         \o (IF cancellation
               THEN <<"on:close", "on:aborted", "on:finish:cleanup">>
               ELSE <<>>)
         \o <<"on:finish:destroyed", "next">>
    ELSE <<>>

\* The synchronous calls of the callback passed to RequestContext.run.
UseTrace(hasContext, cancellation) ==
  (IF hasContext
     THEN <<"onContextCreated">>
          \o (IF cancellation
                THEN <<"on:close", "on:aborted", "on:finish:cleanup">>
                ELSE <<>>)
          \o <<"on:finish:destroyed">>
     ELSE <<>>)
  \o <<"next">>

UseListeners(hasContext, cancellation) ==
  IF hasContext
    THEN (IF cancellation THEN {"close", "aborted", "finish:cleanup"} ELSE {})
         \cup {"finish:destroyed"}
    ELSE {}

\* options.generateTraceId(): a fresh identifier for each request.
GenerateTraceId(r) ==
  CASE r = 1 -> "trace-1"
    [] r = 2 -> "trace-2"
    [] OTHER -> "trace-3"

\* use(req, res, next) with extractUser(req) = u.  The timestamp is Date.now(),
\* a value the model does not look into.
MiddlewareUse(r, u) ==
  /\ phase[r] = "new"
  /\ scope' = RunScope(r)
  /\ store' = [store EXCEPT ![r] =
                 [traceId |-> GenerateTraceId(r), timestamp |-> "now",
                  user |-> u,
                  userId |-> IF u = Undefined THEN Undefined ELSE UserIdOf(u),
                  hasRoles |-> FALSE, roles |-> <<>>, cancelled |-> FALSE]]
  /\ LET hasContext == scope'[r] # {}
     IN /\ trace' = [trace EXCEPT ![r] = @ \o UseTrace(hasContext, enableCancellation)]
        /\ listeners' = [listeners EXCEPT ![r] =
                           UseListeners(hasContext, enableCancellation)]
  /\ phase' = [phase EXCEPT ![r] = "routed"]
  /\ UNCHANGED <<config, reqUser, fired, connLost, providerCalls, settled,
                 outcome, rolesOutcome,
                 claimsOutcome, guardRuns, icptVars>>

\* use(req, res, next) when RequestContext.current() yields nothing inside the
\* callback of run: the `if (context)` block is skipped.
UseWithoutContext(r, u) ==
  /\ phase[r] = "new"
  /\ trace' = [trace EXCEPT ![r] = @ \o UseTrace(FALSE, enableCancellation)]
  /\ listeners' = [listeners EXCEPT ![r] = UseListeners(FALSE, enableCancellation)]
  /\ phase' = [phase EXCEPT ![r] = "routed"]
  /\ UNCHANGED <<config, reqUser, store, scope, fired, connLost, providerCalls,
                 settled, outcome, rolesOutcome, claimsOutcome, guardRuns, icptVars>>

\* A route the middleware is not applied to: the guard runs outside any scope.
NoMiddleware(r) ==
  /\ phase[r] = "new"
  /\ phase' = [phase EXCEPT ![r] = "routed"]
  /\ UNCHANGED <<config, reqUser, store, scope, listeners, fired, connLost,
                 providerCalls, settled, outcome, rolesOutcome,
                 claimsOutcome, guardRuns, icptVars, trace>>

-----------------------------------------------------------------------------
(* StruktosAuthGuard.canActivate *)

\* Mutant: the context's user is not consulted.
ExistingUserRequestOnly(r) == reqUser[r]

\* getUserFromContext() || request.user
ExistingUser(r) ==
  IF HasCurrent(r) /\ Current(r).user # Undefined
    THEN Current(r).user
    ELSE reqUser[r]

\* authenticateRequest reaches authService.validateToken(parts[1]).
ReachesValidateToken(h) ==
  /\ authService
  /\ h.has
  /\ ~(Len(h.parts) # 2 \/ h.parts[1] # "Bearer")

\* Mutant: the scheme of the authorization header is not checked.
AuthenticateRequestAnyScheme(h, result) ==
  IF ~authService THEN Undefined
  ELSE IF ~h.has THEN Undefined
  ELSE IF Len(h.parts) # 2 THEN Undefined
  ELSE IF result = "throw" THEN Undefined
  ELSE result

\* What authenticateRequest resolves to when validateToken settles as `result`
\* (a principal, Undefined for null, or "throw" for a rejection).
AuthenticateRequest(h, result) ==
  IF ~authService THEN Undefined
  ELSE IF ~h.has THEN Undefined
  ELSE IF Len(h.parts) # 2 \/ h.parts[1] # "Bearer" THEN Undefined
  ELSE IF result = "throw" THEN Undefined
  ELSE result

\* Mutant: the user is kept in one place shared by all requests.
StoreUserInContextShared(r, u) ==
  [k \in DOMAIN store |->
     [store[k] EXCEPT !.user = u,
                      !.userId = UserIdOf(u),
                      !.hasRoles = TRUE,
                      !.roles = UserRoles(u).list]]

\* Mutant: the context record is written without asking whether a scope is
\* active.
StoreUserInContextNoCheck(r, u) ==
  [k \in DOMAIN store |->
     IF k = r
       THEN [store[k] EXCEPT !.user = u,
                             !.userId = UserIdOf(u),
                             !.hasRoles = TRUE,
                             !.roles = UserRoles(u).list]
       ELSE store[k]]

\* Mutant: the roles are not written to the context.
StoreUserInContextNoRoles(r, u) ==
  IF HasCurrent(r)
    THEN [k \in DOMAIN store |->
            IF k \in scope[r]
              THEN [store[k] EXCEPT !.user = u, !.userId = UserIdOf(u)]
              ELSE store[k]]
    ELSE store

\* storeUserInContext(user, request): the context records afterwards.
StoreUserInContext(r, u) ==
  IF HasCurrent(r)
    THEN [k \in DOMAIN store |->
            IF k \in scope[r]
              THEN [store[k] EXCEPT !.user = u,
                                    !.userId = UserIdOf(u),
                                    !.hasRoles = TRUE,
                                    !.roles = UserRoles(u).list]
              ELSE store[k]]
    ELSE store

\* Mutant: a missing user does not stop the checks.
DecideFailOpen(user, m) ==
  LET requiredRoles  == GetAllAndOverride("roles", m)
      requiredClaims == GetAllAndOverride("claims", m)
      rolesRequired  == requiredRoles.has /\ Len(requiredRoles.list) > 0
  IN IF user = Undefined
       THEN Allow
       ELSE IF rolesRequired /\ ~CheckRoles(user, requiredRoles.list)
              THEN Forbidden("roles", RolesText(requiredRoles.list))
              ELSE IF requiredClaims.has /\ ~CheckClaims(user, requiredClaims)
                     THEN Forbidden("claims", ClaimsText(requiredClaims))
                     ELSE Allow

\* Mutant: the claims are checked before the roles.
DecideClaimsFirst(user, m) ==
  LET requiredRoles  == GetAllAndOverride("roles", m)
      requiredClaims == GetAllAndOverride("claims", m)
      rolesRequired  == requiredRoles.has /\ Len(requiredRoles.list) > 0
  IN IF rolesRequired \/ requiredClaims.has
       THEN IF user = Undefined
              THEN Unauthenticated
              ELSE IF requiredClaims.has /\ ~CheckClaims(user, requiredClaims)
                     THEN Forbidden("claims", ClaimsText(requiredClaims))
                     ELSE IF rolesRequired /\ ~CheckRoles(user, requiredRoles.list)
                            THEN Forbidden("roles", RolesText(requiredRoles.list))
                            ELSE Allow
       ELSE Allow

\* Mutant: a user is demanded whether or not anything is required.
DecideRequireUser(user, m) ==
  LET requiredRoles  == GetAllAndOverride("roles", m)
      requiredClaims == GetAllAndOverride("claims", m)
      rolesRequired  == requiredRoles.has /\ Len(requiredRoles.list) > 0
  IN IF user = Undefined
       THEN Unauthenticated
       ELSE IF rolesRequired /\ ~CheckRoles(user, requiredRoles.list)
              THEN Forbidden("roles", RolesText(requiredRoles.list))
              ELSE IF requiredClaims.has /\ ~CheckClaims(user, requiredClaims)
                     THEN Forbidden("claims", ClaimsText(requiredClaims))
                     ELSE Allow

\* canActivate from the metadata lookups of lines 113-121 on, for the user
\* obtained so far: what it returns or throws.
Decide(user, m) ==
  LET requiredRoles  == GetAllAndOverride("roles", m)
      requiredClaims == GetAllAndOverride("claims", m)
      rolesRequired  == requiredRoles.has /\ Len(requiredRoles.list) > 0
  IN IF rolesRequired \/ requiredClaims.has
       THEN IF user = Undefined
              THEN Unauthenticated
              ELSE IF rolesRequired /\ ~CheckRoles(user, requiredRoles.list)
                     THEN Forbidden("roles", RolesText(requiredRoles.list))
                     ELSE IF requiredClaims.has /\ ~CheckClaims(user, requiredClaims)
                            THEN Forbidden("claims", ClaimsText(requiredClaims))
                            ELSE Allow
       ELSE Allow

\* Mutant: the user is written to the context but not to request.user.
CanActivateTailNoRequestUser(r, user) ==
  /\ outcome' = [outcome EXCEPT ![r] = Decide(user, meta[r])]
  /\ store' = IF user # Undefined THEN StoreUserInContext(r, user) ELSE store
  /\ reqUser' = reqUser
  /\ phase' = [phase EXCEPT ![r] =
                 IF Decide(user, meta[r]).kind = "allow" THEN "allowed" ELSE "denied"]

\* Mutant: the user is stored only once the checks have passed.
CanActivateTailStoreOnAllow(r, user) ==
  /\ outcome' = [outcome EXCEPT ![r] = Decide(user, meta[r])]
  /\ store' = IF user # Undefined /\ Decide(user, meta[r]).kind = "allow"
                THEN StoreUserInContext(r, user) ELSE store
  /\ reqUser' = IF user # Undefined /\ Decide(user, meta[r]).kind = "allow"
                  THEN [reqUser EXCEPT ![r] = user] ELSE reqUser
  /\ phase' = [phase EXCEPT ![r] =
                 IF Decide(user, meta[r]).kind = "allow" THEN "allowed" ELSE "denied"]

\* The rest of canActivate once `user` is settled (lines 112-157).
CanActivateTail(r, user) ==
  /\ outcome' = [outcome EXCEPT ![r] = Decide(user, meta[r])]
  /\ store' = IF user # Undefined THEN StoreUserInContext(r, user) ELSE store
  /\ reqUser' = IF user # Undefined THEN [reqUser EXCEPT ![r] = user] ELSE reqUser
  /\ phase' = [phase EXCEPT ![r] =
                 IF Decide(user, meta[r]).kind = "allow" THEN "allowed" ELSE "denied"]

\* canActivate up to its return, its throw or its await of authenticateRequest.
GuardBegin(r) ==
  /\ phase[r] = "routed"
  /\ guardRuns' = [guardRuns EXCEPT ![r] = @ + 1]
  /\ IF GetAllAndOverride("public", meta[r]).has
       THEN /\ outcome' = [outcome EXCEPT ![r] = Allow]
            /\ phase' = [phase EXCEPT ![r] = "allowed"]
            /\ UNCHANGED <<store, reqUser, providerCalls>>
       ELSE IF ExistingUser(r) = Undefined /\ authService
              THEN /\ phase' = [phase EXCEPT ![r] = "awaitAuth"]
                   /\ providerCalls' =
                        [providerCalls EXCEPT ![r] =
                           IF ReachesValidateToken(header[r]) THEN @ + 1 ELSE @]
                   /\ UNCHANGED <<store, reqUser, outcome>>
              ELSE /\ CanActivateTail(r, ExistingUser(r))
                   /\ UNCHANGED providerCalls
  /\ UNCHANGED <<config, scope, listeners, fired, connLost, settled,
                 rolesOutcome,
                 claimsOutcome, icptVars, trace>>

\* canActivate resumed after `await this.authenticateRequest(request)`, the
\* provider having settled as `result`.
GuardResume(r, result) ==
  /\ phase[r] = "awaitAuth"
  /\ CanActivateTail(r, AuthenticateRequest(header[r], result))
  /\ settled' = [settled EXCEPT ![r] =
                   IF ReachesValidateToken(header[r]) THEN result ELSE @]
  /\ UNCHANGED <<config, scope, listeners, fired, connLost, providerCalls,
                 rolesOutcome,
                 claimsOutcome, guardRuns, icptVars, trace>>

\* The runs of StruktosAuthGuard followed within one request.
MaxGuardRuns == 2

\* canActivate run again on a request it has allowed (the guard bound at more
\* than one level, or listed twice), up to its return, throw or await.
GuardRerun(r) ==
  /\ phase[r] = "allowed"
  /\ outcome[r] = Allow
  /\ guardRuns[r] < MaxGuardRuns
  /\ guardRuns' = [guardRuns EXCEPT ![r] = @ + 1]
  /\ IF GetAllAndOverride("public", meta[r]).has
       THEN /\ outcome' = [outcome EXCEPT ![r] = Allow]
            /\ phase' = [phase EXCEPT ![r] = "allowed"]
            /\ UNCHANGED <<store, reqUser, providerCalls>>
       ELSE IF ExistingUser(r) = Undefined /\ authService
              THEN /\ phase' = [phase EXCEPT ![r] = "awaitAuth"]
                   /\ providerCalls' =
                        [providerCalls EXCEPT ![r] =
                           IF ReachesValidateToken(header[r]) THEN @ + 1 ELSE @]
                   /\ UNCHANGED <<store, reqUser, outcome>>
              ELSE /\ CanActivateTail(r, ExistingUser(r))
                   /\ UNCHANGED providerCalls
  /\ UNCHANGED <<config, scope, listeners, fired, connLost, settled,
                 rolesOutcome, claimsOutcome, icptVars, trace>>

\* StruktosRolesGuard.getUser: the context's user, else request.user.
RolesGuardGetUser(r) ==
  IF HasCurrent(r) /\ Current(r).user # Undefined
    THEN Current(r).user
    ELSE reqUser[r]

\* StruktosRolesGuard.canActivate for the user getUser yields.
RolesGuardDecide(user, m) ==
  LET requiredRoles == GetAllAndOverride("roles", m)
  IN IF ~requiredRoles.has \/ Len(requiredRoles.list) = 0
       THEN Allow
       ELSE IF user = Undefined
              THEN Unauthenticated
              ELSE IF ~UserRoles(user).has
                      \/ ~(\E i \in 1..Len(requiredRoles.list) :
                             Includes(UserRoles(user).list, requiredRoles.list[i]))
                     THEN Forbidden("roles", RolesText(requiredRoles.list))
                     ELSE Allow

\* StruktosRolesGuard.canActivate, alone or after StruktosAuthGuard allowed.
RolesGuard(r) ==
  /\ phase[r] \in {"routed", "allowed"}
  /\ rolesOutcome[r] = Pending
  /\ rolesOutcome' = [rolesOutcome EXCEPT ![r] =
                        RolesGuardDecide(RolesGuardGetUser(r), meta[r])]
  /\ phase' = [phase EXCEPT ![r] =
                 IF RolesGuardDecide(RolesGuardGetUser(r), meta[r]).kind = "allow"
                   THEN @ ELSE "denied"]
  /\ UNCHANGED <<config, reqUser, store, scope, listeners, fired, connLost,
                 providerCalls, settled, outcome, claimsOutcome, guardRuns, icptVars, trace>>

\* StruktosClaimsGuard.getUser: the context's user, else request.user.
ClaimsGuardGetUser(r) ==
  IF HasCurrent(r) /\ Current(r).user # Undefined
    THEN Current(r).user
    ELSE reqUser[r]

\* user.claims?.some(...) for one requirement, in StruktosClaimsGuard.
HasClaim(u, requirement) ==
  /\ UserClaims(u).has
  /\ \E j \in 1..Len(UserClaims(u).list) :
       IF UserClaims(u).list[j].type # requirement.type THEN FALSE
       ELSE IF requirement.hasValue
              THEN UserClaims(u).list[j].value = requirement.value
              ELSE TRUE

\* The text of StruktosClaimsGuard's denial for one requirement.
ClaimText(requirement) ==
  << << requirement.type,
        IF requirement.hasValue /\ requirement.value # ""
          THEN requirement.value ELSE "" >> >>

\* The for loop of StruktosClaimsGuard.canActivate from requirement i on.
RECURSIVE ClaimsGuardLoop(_, _, _)
ClaimsGuardLoop(u, claims, i) ==
  IF i > Len(claims) THEN Allow
  ELSE IF ~HasClaim(u, claims[i]) THEN Forbidden("claim", ClaimText(claims[i]))
  ELSE ClaimsGuardLoop(u, claims, i + 1)

\* StruktosClaimsGuard.canActivate for the user getUser yields.
ClaimsGuardDecide(user, m) ==
  LET requiredClaims == GetAllAndOverride("claims", m)
  IN IF ~requiredClaims.has
       THEN Allow
       ELSE IF user = Undefined
              THEN Unauthenticated
              ELSE ClaimsGuardLoop(user, requiredClaims.list, 1)

\* StruktosClaimsGuard.canActivate, alone or after StruktosAuthGuard allowed.
ClaimsGuard(r) ==
  /\ phase[r] \in {"routed", "allowed"}
  /\ claimsOutcome[r] = Pending
  /\ claimsOutcome' = [claimsOutcome EXCEPT ![r] =
                         ClaimsGuardDecide(ClaimsGuardGetUser(r), meta[r])]
  /\ phase' = [phase EXCEPT ![r] =
                 IF ClaimsGuardDecide(ClaimsGuardGetUser(r), meta[r]).kind = "allow"
                   THEN @ ELSE "denied"]
  /\ UNCHANGED <<config, reqUser, store, scope, listeners, fired, connLost,
                 providerCalls, settled, outcome, rolesOutcome, guardRuns, icptVars, trace>>

\* What validateToken may settle as for the request's header.
ProviderResults(h) ==
  IF h.has /\ Len(h.parts) >= 2
    THEN {TokenUser(h.parts[2]), Undefined, "throw"}
    ELSE {Undefined}

-----------------------------------------------------------------------------
(* The handler and the transport *)

\* The route handler, or the exception filter after a denial, ends the response.
HandlerRespond(r) ==
  /\ phase[r] \in {"allowed", "denied"}
  /\ phase' = [phase EXCEPT ![r] = "responded"]
  /\ UNCHANGED <<config, reqUser, store, scope, listeners, fired, connLost,
                 providerCalls, settled, outcome, rolesOutcome,
                 claimsOutcome, guardRuns, icptVars, trace>>

\* Mutant: cancel() flips the flag.
OnCloseToggle(r, event) ==
  IF event \in listeners[r]
    THEN /\ store' = [k \in DOMAIN store |->
                        IF k \in scope[r] THEN [store[k] EXCEPT !.cancelled = ~@]
                        ELSE store[k]]
         /\ trace' = [trace EXCEPT ![r] = Append(@, "cancel")]
    ELSE UNCHANGED <<store, trace>>

\* onClose, registered for `event`: context.cancel() on the record use captured.
OnClose(r, event) ==
  IF event \in listeners[r]
    THEN /\ store' = [k \in DOMAIN store |->
                        IF k \in scope[r] THEN [store[k] EXCEPT !.cancelled = TRUE]
                        ELSE store[k]]
         /\ trace' = [trace EXCEPT ![r] = Append(@, "cancel")]
    ELSE UNCHANGED <<store, trace>>

\* The request emits 'aborted': the client went away before the response ended.
EmitAborted(r) ==
  /\ phase[r] \in {"routed", "awaitAuth", "allowed", "denied", "responded"}
  /\ fired[r] = {}
  /\ fired' = [fired EXCEPT ![r] = @ \cup {"aborted"}]
  /\ connLost' = [connLost EXCEPT ![r] = TRUE]
  /\ OnClose(r, "aborted")
  /\ UNCHANGED <<phase, config, reqUser, scope, listeners, providerCalls,
                 settled, outcome, rolesOutcome,
                 claimsOutcome, guardRuns, icptVars>>

\* The request emits 'close': after 'aborted', after the response finished, or,
\* on runtimes that close the request stream once it is read, before either
\* (lost = FALSE).  Before 'finish', lost says whether the client went away.
EmitClose(r, lost) ==
  /\ phase[r] \in {"routed", "awaitAuth", "allowed", "denied", "responded"}
  /\ "close" \notin fired[r]
  /\ fired' = [fired EXCEPT ![r] = @ \cup {"close"}]
  /\ connLost' = [connLost EXCEPT ![r] =
                    IF "finish" \in fired[r] THEN @
                    ELSE IF "aborted" \in fired[r] THEN TRUE
                    ELSE lost]
  /\ OnClose(r, "close")
  /\ UNCHANGED <<phase, config, reqUser, scope, listeners, providerCalls,
                 settled, outcome, rolesOutcome,
                 claimsOutcome, guardRuns, icptVars>>

\* Mutant: the 'finish' cleanup leaves the disconnect listeners registered.
TransportFinishKeepListeners(r) ==
  /\ phase[r] = "responded"
  /\ ~connLost[r]
  /\ "finish" \notin fired[r]
  /\ fired' = [fired EXCEPT ![r] = @ \cup {"finish"}]
  /\ listeners' = listeners
  /\ trace' = [trace EXCEPT ![r] =
                 @ \o (IF "finish:cleanup" \in listeners[r]
                         THEN <<"removeListener">> ELSE <<>>)
                   \o (IF "finish:destroyed" \in listeners[r]
                         THEN <<"onContextDestroyed">> ELSE <<>>)]
  /\ UNCHANGED <<phase, config, reqUser, store, scope, connLost, providerCalls,
                 settled, outcome, rolesOutcome,
                 claimsOutcome, guardRuns, icptVars>>

\* The response emits 'finish': it was ended and handed to a live connection.
\* Both 'finish' listeners of use run, in the order they were registered.
TransportFinish(r) ==
  /\ phase[r] = "responded"
  /\ ~connLost[r]
  /\ "finish" \notin fired[r]
  /\ fired' = [fired EXCEPT ![r] = @ \cup {"finish"}]
  /\ listeners' = [listeners EXCEPT ![r] =
                     (IF "finish:cleanup" \in @ THEN @ \ {"close", "aborted"} ELSE @)]
  /\ trace' = [trace EXCEPT ![r] =
                 @ \o (IF "finish:cleanup" \in listeners[r]
                         THEN <<"removeListener">> ELSE <<>>)
                   \o (IF "finish:destroyed" \in listeners[r]
                         THEN <<"onContextDestroyed">> ELSE <<>>)]
  /\ UNCHANGED <<phase, config, reqUser, store, scope, connLost, providerCalls,
                 settled, outcome, rolesOutcome,
                 claimsOutcome, guardRuns, icptVars>>

-----------------------------------------------------------------------------
(* StruktosContextInterceptor.intercept *)

\* The values emitted by one handler stream that are followed.
MaxEmissions == 2

\* What a handler stream can fail with.
HandlerErrors == {"NotFoundException", "Error"}

\* The notifications of a stream: a value, an error, the completion.
NextNotification == [kind |-> "next", error |-> "none"]
ErrorNotification(e) == [kind |-> "error", error |-> e]
CompleteNotification == [kind |-> "complete", error |-> "none"]

\* this.logger?.<level>(message, ...): the call, if a logger is injected.
LoggerCall(r, level, message, error) ==
  IF logger
    THEN [log EXCEPT ![r] = Append(@, [level |-> level, message |-> message,
                                        error |-> error])]
    ELSE log

\* intercept up to its return: the trace header, the start entry, and the
\* handler's stream piped through tap and catchError and subscribed to.
Intercept(r) ==
  /\ phase[r] = "allowed"
  /\ LET traceId == IF HasCurrent(r) THEN Current(r).traceId ELSE Undefined
     IN responseHeaders' =
          [responseHeaders EXCEPT ![r] =
             IF traceId # Undefined THEN @ \cup {<<"X-Trace-Id", traceId>>} ELSE @]
  /\ log' = LoggerCall(r, "debug", "Request started", "none")
  /\ phase' = [phase EXCEPT ![r] = "handling"]
  /\ UNCHANGED <<config, reqUser, store, scope, listeners, fired, connLost,
                 providerCalls, settled, outcome, rolesOutcome, claimsOutcome,
                 guardRuns, handled, delivered, trace>>

\* The handler's stream emits a value: the callback of tap runs and the value
\* passes on.
HandlerNext(r) ==
  /\ phase[r] = "handling"
  /\ Len(handled[r]) < MaxEmissions
  /\ handled' = [handled EXCEPT ![r] = Append(@, NextNotification)]
  /\ responseHeaders' =
       [responseHeaders EXCEPT ![r] = @ \cup {<<"X-Response-Time", "duration">>}]
  /\ log' = LoggerCall(r, "info", "Request completed", "none")
  /\ delivered' = [delivered EXCEPT ![r] = Append(@, NextNotification)]
  /\ UNCHANGED <<phase, config, reqUser, store, scope, listeners, fired, connLost,
                 providerCalls, settled, outcome, rolesOutcome, claimsOutcome,
                 guardRuns, trace>>

\* The handler's stream fails with e: the callback of catchError runs and
\* returns throwError(() => error).
HandlerError(r, e) ==
  /\ phase[r] = "handling"
  /\ handled' = [handled EXCEPT ![r] = Append(@, ErrorNotification(e))]
  /\ log' = LoggerCall(r, "error", "Request failed", e)
  /\ delivered' = [delivered EXCEPT ![r] = Append(@, ErrorNotification(e))]
  /\ phase' = [phase EXCEPT ![r] = "responded"]
  /\ UNCHANGED <<config, reqUser, store, scope, listeners, fired, connLost,
                 providerCalls, settled, outcome, rolesOutcome, claimsOutcome,
                 guardRuns, responseHeaders, trace>>

\* The handler's stream completes: neither callback runs.
HandlerComplete(r) ==
  /\ phase[r] = "handling"
  /\ handled' = [handled EXCEPT ![r] = Append(@, CompleteNotification)]
  /\ delivered' = [delivered EXCEPT ![r] = Append(@, CompleteNotification)]
  /\ phase' = [phase EXCEPT ![r] = "responded"]
  /\ UNCHANGED <<config, reqUser, store, scope, listeners, fired, connLost,
                 providerCalls, settled, outcome, rolesOutcome, claimsOutcome,
                 guardRuns, log, responseHeaders, trace>>

-----------------------------------------------------------------------------
(* The context parameter decorators, evaluated in request r's continuation *)

\* Ctx(key): undefined outside a scope, else context.get(key).
Ctx(r, key) == IF ~HasCurrent(r) THEN Undefined ELSE Current(r)[key]

\* TraceId()
TraceId(r) == IF HasCurrent(r) THEN Current(r).traceId ELSE Undefined

\* CurrentUser()
CurrentUser(r) ==
  IF HasCurrent(r) /\ Current(r).user # Undefined THEN Current(r).user ELSE Undefined

\* UserId()
UserId(r) == IF HasCurrent(r) THEN Current(r).userId ELSE Undefined

\* RequestTimestamp()
RequestTimestamp(r) == IF HasCurrent(r) THEN Current(r).timestamp ELSE Undefined

\* IsCancelled(): the function it injects, called now.
IsCancelled(r) == IF HasCurrent(r) THEN Current(r).cancelled ELSE FALSE

-----------------------------------------------------------------------------
(* Specifications *)

\* The operation of the example's AdminController: the group requires Admin.
AdminRoute == [op |-> NoMetadata, grp |-> Roles(<<"Admin">>, NoMetadata)]

\* The token request r carries: every request is another client's.
TokenOf(r) == TokenSeq[((r - 1) % Len(TokenSeq)) + 1]

InitCommon ==
  /\ store = [r \in Requests |-> EmptyRecord]
  /\ scope = [r \in Requests |-> {}]
  /\ listeners = [r \in Requests |-> {}]
  /\ fired = [r \in Requests |-> {}]
  /\ connLost = [r \in Requests |-> FALSE]
  /\ providerCalls = [r \in Requests |-> 0]
  /\ settled = [r \in Requests |-> "none"]
  /\ outcome = [r \in Requests |-> Pending]
  /\ rolesOutcome = [r \in Requests |-> Pending]
  /\ claimsOutcome = [r \in Requests |-> Pending]
  /\ guardRuns = [r \in Requests |-> 0]
  /\ log = [r \in Requests |-> <<>>]
  /\ handled = [r \in Requests |-> <<>>]
  /\ delivered = [r \in Requests |-> <<>>]
  /\ responseHeaders = [r \in Requests |-> {}]
  /\ trace = [r \in Requests |-> <<>>]

\* An operation with no declaration at either level.
OpenRoute == [op |-> NoMetadata, grp |-> NoMetadata]

\* Concurrent requests of distinct clients, each carrying its own token, their
\* continuations interleaved at will.
Init ==
  /\ InitCommon
  /\ phase = [r \in Requests |-> "new"]
  /\ meta \in [Requests -> {AdminRoute, OpenRoute}]
  /\ header = [r \in Requests |-> Bearer(TokenOf(r))]
  /\ reqUser = [r \in Requests |-> Undefined]
  /\ authService = TRUE
  /\ cancellationOption = "omitted"
  /\ enableCancellation = EnableCancellation(cancellationOption)
  /\ logger = FALSE

Next ==
  \E r \in Requests :
    \/ \E u \in {Undefined, TokenUser(TokenOf(r))} : MiddlewareUse(r, u)
    \/ GuardBegin(r)
    \/ \E result \in ProviderResults(header[r]) : GuardResume(r, result)
    \/ HandlerRespond(r)

Spec == Init /\ [][Next]_vars

\* One request from its arrival to its end, with every transport event.
InitLife ==
  /\ InitCommon
  /\ phase = [r \in Requests |-> IF r = 1 THEN "new" ELSE "idle"]
  /\ \E m \in {AdminRoute, OpenRoute, [op |-> Public(NoMetadata), grp |-> NoMetadata]} :
       meta = [r \in Requests |-> m]
  /\ \E h \in {NoHeader, Bearer("admin-token"), Bearer("user-token")} :
       header = [r \in Requests |-> h]
  /\ reqUser = [r \in Requests |-> Undefined]
  /\ authService \in BOOLEAN
  /\ cancellationOption \in {"omitted", "true", "false"}
  /\ enableCancellation = EnableCancellation(cancellationOption)
  /\ logger = FALSE

NextLife ==
  \E r \in Requests :
    \/ \E u \in {Undefined, "admin"} : MiddlewareUse(r, u)
    \/ GuardBegin(r)
    \/ \E result \in ProviderResults(header[r]) : GuardResume(r, result)
    \/ HandlerRespond(r)
    \/ EmitAborted(r)
    \/ \E lost \in BOOLEAN : EmitClose(r, lost)
    \/ TransportFinish(r)

SpecLife == InitLife /\ [][NextLife]_vars

\* One request through use, whether or not a context is obtained in the scope.
NextUse ==
  \E r \in Requests :
    \/ \E u \in {Undefined, "admin"} : MiddlewareUse(r, u)
    \/ \E u \in {Undefined, "admin"} : UseWithoutContext(r, u)
    \/ GuardBegin(r)
    \/ \E result \in ProviderResults(header[r]) : GuardResume(r, result)
    \/ HandlerRespond(r)
    \/ \E lost \in BOOLEAN : EmitClose(r, lost)
    \/ TransportFinish(r)

SpecUse == InitLife /\ [][NextUse]_vars

-----------------------------------------------------------------------------
(* One guarded request over the declarations the decorators can produce *)

\* Operation-level declarations.
OpTargets ==
  { NoMetadata,
    Public(NoMetadata),
    Public(Roles(<<"Admin">>, NoMetadata)),
    Roles(<<"Admin">>, NoMetadata),
    Roles(<<"Admin", "Moderator">>, NoMetadata),
    Roles(<<>>, NoMetadata),
    RequireClaim("permission", TRUE, "write:documents", NoMetadata),
    RequireClaim("department", FALSE, Undefined, NoMetadata),
    RequireClaims(<<ClaimPermWrite, ClaimDeptEng>>, NoMetadata),
    RequireClaims(<<>>, NoMetadata),
    Roles(<<"Admin">>, RequireClaim("department", TRUE, "engineering", NoMetadata)),
    RequireClaim("permission", TRUE, "write:documents",
                 RequireClaim("department", TRUE, "engineering", NoMetadata)) }
  \cup {Auth(o, NoMetadata) : o \in AuthOptionsUsed}

\* Group-level declarations.
GrpTargets ==
  { NoMetadata,
    Public(NoMetadata),
    Roles(<<"User">>, NoMetadata),
    Roles(<<"Admin">>, NoMetadata),
    RequireClaim("department", TRUE, "engineering", NoMetadata),
    Roles(<<"User">>, RequireClaim("permission", TRUE, "write:documents", NoMetadata)) }

\* request.headers.authorization: absent, Bearer <token>, another scheme, a
\* scheme alone, a credential with a space in it.
Headers ==
  {NoHeader}
  \cup {Bearer(t) : t \in Tokens}
  \cup { [has |-> TRUE, parts |-> <<"Basic", "admin-token">>],
         [has |-> TRUE, parts |-> <<"Bearer">>],
         [has |-> TRUE, parts |-> <<"Bearer", "admin-token", "x">>] }

\* Request 1 alone, with any declarations, header, request.user and provider.
InitGuard ==
  /\ InitCommon
  /\ phase = [r \in Requests |-> IF r = 1 THEN "new" ELSE "idle"]
  /\ \E o \in OpTargets, g \in GrpTargets :
       meta = [r \in Requests |-> [op |-> o, grp |-> g]]
  /\ \E h \in Headers : header = [r \in Requests |-> h]
  /\ \E u \in UserNames \cup {Undefined} : reqUser = [r \in Requests |-> u]
  /\ authService \in BOOLEAN
  /\ cancellationOption = "omitted"
  /\ enableCancellation = EnableCancellation(cancellationOption)
  /\ logger = FALSE

NextGuard ==
  \E r \in Requests :
    \/ \E u \in UserNames \cup {Undefined} : MiddlewareUse(r, u)
    \/ NoMiddleware(r)
    \/ GuardBegin(r)
    \/ \E result \in ProviderResults(header[r]) : GuardResume(r, result)
    \/ RolesGuard(r)
    \/ ClaimsGuard(r)

SpecGuard == InitGuard /\ [][NextGuard]_vars

\* One request through the guard and StruktosContextInterceptor, with or
\* without a logger, its handler's stream emitting, failing or completing.
InitIntercept ==
  /\ InitCommon
  /\ phase = [r \in Requests |-> IF r = 1 THEN "new" ELSE "idle"]
  /\ \E m \in {AdminRoute, OpenRoute} : meta = [r \in Requests |-> m]
  /\ \E h \in {NoHeader, Bearer("admin-token")} : header = [r \in Requests |-> h]
  /\ reqUser = [r \in Requests |-> Undefined]
  /\ authService = TRUE
  /\ cancellationOption = "omitted"
  /\ enableCancellation = EnableCancellation(cancellationOption)
  /\ logger \in BOOLEAN

NextIntercept ==
  \E r \in Requests :
    \/ \E u \in {Undefined, "admin"} : MiddlewareUse(r, u)
    \/ NoMiddleware(r)
    \/ GuardBegin(r)
    \/ \E result \in ProviderResults(header[r]) : GuardResume(r, result)
    \/ Intercept(r)
    \/ HandlerNext(r)
    \/ \E e \in HandlerErrors : HandlerError(r, e)
    \/ HandlerComplete(r)

SpecIntercept == InitIntercept /\ [][NextIntercept]_vars

\* One guarded request on which the guards run more than once.
NextStable ==
  \E r \in Requests :
    \/ \E u \in UserNames \cup {Undefined} : MiddlewareUse(r, u)
    \/ NoMiddleware(r)
    \/ GuardBegin(r)
    \/ \E result \in ProviderResults(header[r]) : GuardResume(r, result)
    \/ GuardRerun(r)
    \/ RolesGuard(r)
    \/ ClaimsGuard(r)

SpecStable == InitGuard /\ [][NextStable]_vars

-----------------------------------------------------------------------------
(* What the claims speak of, stated apart from the guard's own operators *)

IsPublic(m) == m.op.public.has \/ m.grp.public.has

\* The effective role list: the operation's when declared, else the group's.
EffectiveRoles(m) ==
  IF m.op.roles.has THEN m.op.roles.list
  ELSE IF m.grp.roles.has THEN m.grp.roles.list
  ELSE <<>>

\* The effective claim declaration: the operation's when declared, else the group's.
EffectiveClaims(m) ==
  IF m.op.claims.has THEN m.op.claims ELSE m.grp.claims

RequirementExists(m) == EffectiveRoles(m) # <<>> \/ EffectiveClaims(m).has

Range(seq) == {seq[i] : i \in 1..Len(seq)}

\* The principal and the required roles have a role in common.
SharesRole(u, roles) == Range(UserRoles(u).list) \cap Range(roles) # {}

\* The principal holds a claim of the requirement's type and, if it gives one, value.
HoldsClaim(u, requirement) ==
  \E c \in Range(UserClaims(u).list) :
    /\ c.type = requirement.type
    /\ requirement.hasValue => c.value = requirement.value

\* The context's user of a request, Undefined outside any scope.
ContextUser(r) == IF HasCurrent(r) THEN Current(r).user ELSE Undefined

\* The principal a guard finds: the context's, else the request's.
PrincipalSeen(r) == IF ContextUser(r) # Undefined THEN ContextUser(r) ELSE reqUser[r]

AuthGuardDone(r) == outcome[r].kind # "pending"

\* The request is over: its response finished, or its client is gone and its
\* handling has ended.
Ended(r) ==
  \/ "finish" \in fired[r]
  \/ connLost[r] /\ phase[r] = "responded"

IsBearerHeader(h) == h.has /\ \E t \in Tokens : h.parts = <<"Bearer", t>>

-----------------------------------------------------------------------------
(* Claims *)

\* C1: with requests of distinct clients interleaved, also across the guard's
\* await of validateToken, the record a request's continuation reads through
\* RequestContext.current() is its own and no other request's, and the user in
\* it is never another request's principal.
C1_ContextIsolation ==
  \A a \in Requests :
    HasCurrent(a) =>
      /\ scope[a] = {a}
      /\ \A b \in Requests \ {a} : scope[a] \cap scope[b] = {}
      /\ Current(a).user \in {Undefined, TokenUser(TokenOf(a))}
      /\ Current(a).userId \in {Undefined, UserIdOf(TokenUser(TokenOf(a)))}

C1_Witness ==
  \E a \in Requests : \E b \in Requests \ {a} :
    /\ phase[a] = "awaitAuth"
    /\ providerCalls[b] = 1
    /\ AuthGuardDone(b)
    /\ Current(b).user = TokenUser(TokenOf(b))

\* C2: once a request that entered use is over (its response finished, or its
\* client disconnected and its handling ended), onContextDestroyed has been
\* invoked exactly once.
C2_DestroyedExactlyOnce ==
  \A r \in Requests :
    Ended(r) => Count(trace[r], "onContextDestroyed") = 1

\* C3: a request that entered use has had onContextCreated invoked exactly
\* once, with its context scope established, before next() and before any
\* onContextDestroyed.
C3_CreatedOnceBeforeNext ==
  \A r \in Requests :
    IF phase[r] \in {"new", "idle"}
      THEN trace[r] = <<>>
      ELSE /\ Count(trace[r], "onContextCreated") = 1
           /\ HasCurrent(r)
           /\ IndexOf(trace[r], "onContextCreated") < IndexOf(trace[r], "next")
           /\ IndexOf(trace[r], "onContextCreated")
                < IndexOf(trace[r], "onContextDestroyed")

C3_Witness ==
  \E r \in Requests :
    /\ "finish" \in fired[r]
    /\ Count(trace[r], "onContextCreated") = 1
    /\ Count(trace[r], "onContextDestroyed") = 1
    /\ Count(trace[r], "next") = 1

\* C4: on an operation marked Public at the operation or the group level,
\* StruktosAuthGuard allows, whatever roles or claims are declared and with
\* or without a principal, and never calls the authentication provider.
C4_PublicAllows ==
  \A r \in Requests :
    IsPublic(meta[r]) =>
      /\ phase[r] # "awaitAuth"
      /\ providerCalls[r] = 0
      /\ AuthGuardDone(r) => outcome[r] = Allow

C4_Witness ==
  \E r \in Requests :
    /\ outcome[r] = Allow
    /\ meta[r].op.public.has /\ ~meta[r].grp.public.has
    /\ meta[r].grp.roles.list = <<"Admin">>
    /\ HasCurrent(r) /\ PrincipalSeen(r) = Undefined

\* C5: the role requirement enforced is the operation's role set when one is
\* declared, else the group's: a principal sharing no role with that set is
\* denied Forbidden, the denial naming that set, even if it holds a role of
\* the overridden group set.
C5_OperationRolesOverride ==
  \A r \in Requests :
    (/\ AuthGuardDone(r) /\ ~IsPublic(meta[r])
     /\ reqUser[r] # Undefined
     /\ EffectiveRoles(meta[r]) # <<>>
     /\ ~SharesRole(reqUser[r], EffectiveRoles(meta[r])))
    => outcome[r] = Forbidden("roles", [i \in 1..Len(EffectiveRoles(meta[r])) |->
                                          <<EffectiveRoles(meta[r])[i]>>])

C5_Witness ==
  \E r \in Requests :
    /\ meta[r].op.roles.list = <<"Admin">>
    /\ meta[r].grp.roles.list = <<"User">>
    /\ reqUser[r] = "john"
    /\ outcome[r].kind = "Forbidden"

\* C6: the claim requirement enforced is the operation's claim declaration when
\* present, else the group's, whatever the role declarations are: the guard
\* allows only if the effective roles and every effective claim are satisfied,
\* and a principal passing the roles but lacking an effective claim is denied
\* Forbidden for the claims.
C6_PerCategoryOverride ==
  \A r \in Requests :
    (AuthGuardDone(r) /\ ~IsPublic(meta[r])) =>
      LET u  == reqUser[r]
          er == EffectiveRoles(meta[r])
          ec == EffectiveClaims(meta[r])
      IN /\ (outcome[r].kind = "allow" /\ er # <<>>) =>
              (u # Undefined /\ SharesRole(u, er))
         /\ (outcome[r].kind = "allow" /\ ec.has) =>
              (u # Undefined /\ \A i \in 1..Len(ec.list) : HoldsClaim(u, ec.list[i]))
         /\ (/\ u # Undefined
             /\ er # <<>> => SharesRole(u, er)
             /\ ec.has
             /\ \E i \in 1..Len(ec.list) : ~HoldsClaim(u, ec.list[i]))
            => (outcome[r].kind = "Forbidden" /\ outcome[r].what = "claims")

C6_Witness ==
  \E r \in Requests :
    /\ meta[r].op.roles.has /\ ~meta[r].op.claims.has
    /\ meta[r].grp.claims.has
    /\ outcome[r].kind = "Forbidden" /\ outcome[r].what = "claims"

\* C7: on a non-Public operation with an effective role or claim requirement,
\* a guard run that ends with no principal in the context or on the request
\* ends Unauthenticated.
C7_NoPrincipalUnauthenticated ==
  \A r \in Requests :
    (/\ AuthGuardDone(r) /\ ~IsPublic(meta[r])
     /\ RequirementExists(meta[r])
     /\ PrincipalSeen(r) = Undefined)
    => outcome[r] = Unauthenticated

C7_Witness ==
  \E r \in Requests :
    /\ outcome[r] = Unauthenticated
    /\ settled[r] = Undefined
    /\ HasCurrent(r)

\* C8: validateToken is called at most once per guard run, and only with a
\* provider configured, no principal in the context or on the request, and an
\* authorization header of the form Bearer <token>.
C8_ProviderCalledOnlyWhenNeeded ==
  [][\A r \in Requests :
       providerCalls'[r] # providerCalls[r] =>
         /\ providerCalls[r] = 0 /\ providerCalls'[r] = 1
         /\ authService
         /\ PrincipalSeen(r) = Undefined
         /\ IsBearerHeader(header[r])]_vars

C8_Witness ==
  \E r \in Requests : providerCalls[r] = 1 /\ HasCurrent(r)

\* C9: when the awaited authentication ends with validateToken rejecting, or
\* without a Bearer header, the guard goes on with no principal: it stores
\* none and ends Unauthenticated if an effective requirement exists, else allows.
C9_ProviderFaultIsNoPrincipal ==
  [][\A r \in Requests :
       (/\ phase[r] = "awaitAuth" /\ phase'[r] # "awaitAuth"
        /\ (settled'[r] = "throw" \/ ~IsBearerHeader(header[r])))
       => /\ outcome'[r] = IF RequirementExists(meta[r]) THEN Unauthenticated ELSE Allow
          /\ reqUser'[r] = Undefined
          /\ store' = store]_vars

C9_Witness ==
  \E r \in Requests : settled[r] = "throw" /\ outcome[r] = Unauthenticated

\* C10: with a non-empty effective role set and a principal, StruktosAuthGuard
\* and StruktosRolesGuard deny for the roles exactly when the principal shares
\* no role with the set.
C10_RoleOrSemantics ==
  \A r \in Requests :
    /\ (/\ AuthGuardDone(r) /\ ~IsPublic(meta[r])
        /\ reqUser[r] # Undefined
        /\ EffectiveRoles(meta[r]) # <<>>)
       => ((outcome[r].kind = "Forbidden" /\ outcome[r].what = "roles")
             <=> ~SharesRole(reqUser[r], EffectiveRoles(meta[r])))
    /\ (/\ rolesOutcome[r].kind \in {"allow", "Forbidden"}
        /\ EffectiveRoles(meta[r]) # <<>>)
       => /\ PrincipalSeen(r) # Undefined
          /\ (rolesOutcome[r].kind = "Forbidden")
               <=> ~SharesRole(PrincipalSeen(r), EffectiveRoles(meta[r]))

C10_Witness ==
  \E r \in Requests :
    /\ EffectiveRoles(meta[r]) = <<"Admin", "Moderator">>
    /\ reqUser[r] = "mod"
    /\ outcome[r] = Allow
    /\ rolesOutcome[r] = Allow

ClaimsGuardDone(r) == claimsOutcome[r].kind \in {"allow", "Forbidden"}

\* C11: a claim requirement is met exactly when the principal holds a claim of
\* its type and, if it carries a value, of exactly that value; a declaration
\* of several is met only if each one is.  StruktosAuthGuard (the roles being
\* met) and StruktosClaimsGuard allow only if every effective claim is held,
\* and with at least one claim declared they deny Forbidden exactly when some
\* effective claim is not held.
C11_ClaimAndSemantics ==
  \A r \in Requests :
    LET ec == EffectiveClaims(meta[r])
        er == EffectiveRoles(meta[r])
    IN /\ (/\ AuthGuardDone(r) /\ ~IsPublic(meta[r])
           /\ reqUser[r] # Undefined
           /\ ec.has
           /\ (er # <<>> => SharesRole(reqUser[r], er)))
           => /\ outcome[r].kind = "allow" =>
                   \A i \in 1..Len(ec.list) : HoldsClaim(reqUser[r], ec.list[i])
              /\ Len(ec.list) > 0 =>
                   ((outcome[r].kind = "Forbidden" /\ outcome[r].what = "claims")
                      <=> \E i \in 1..Len(ec.list) : ~HoldsClaim(reqUser[r], ec.list[i]))
       /\ (ClaimsGuardDone(r) /\ ec.has)
           => /\ PrincipalSeen(r) # Undefined
              /\ (claimsOutcome[r].kind = "Forbidden")
                   <=> \E i \in 1..Len(ec.list) : ~HoldsClaim(PrincipalSeen(r), ec.list[i])

C11_Witness ==
  \E r \in Requests :
    /\ EffectiveClaims(meta[r]).list = <<ClaimPermWrite, ClaimDeptEng>>
    /\ reqUser[r] = "mod"
    /\ HoldsClaim("mod", ClaimPermWrite) /\ ~HoldsClaim("mod", ClaimDeptEng)
    /\ outcome[r].kind = "Forbidden" /\ outcome[r].what = "claims"

C13_AllowStoresPrincipal ==
  \A r \in Requests :
    (/\ outcome[r] = Allow /\ ~IsPublic(meta[r])
     /\ RequirementExists(meta[r])
     /\ HasCurrent(r))
    => LET er == EffectiveRoles(meta[r])
           ec == EffectiveClaims(meta[r])
       IN /\ CurrentUser(r) # Undefined
          /\ CurrentUser(r) = reqUser[r]
          /\ er # <<>> => SharesRole(CurrentUser(r), er)
          /\ ec.has => \A i \in 1..Len(ec.list) : HoldsClaim(CurrentUser(r), ec.list[i])
          /\ UserId(r) = UserIdOf(CurrentUser(r))
          /\ Current(r).hasRoles
          /\ Ctx(r, "roles") = UserRoles(CurrentUser(r)).list

C13_Witness ==
  \E r \in Requests :
    /\ outcome[r] = Allow /\ ~IsPublic(meta[r])
    /\ EffectiveClaims(meta[r]).has
    /\ CurrentUser(r) = "svc"
    /\ ~UserRoles("svc").has
    /\ Current(r).hasRoles /\ Ctx(r, "roles") = <<>>

\* C14: with cancellation enabled, once 'close' and/or 'aborted' has fired for
\* a request before its response finished, cancel() has been called on its
\* context exactly once, however many of the signals fired, and isCancelled()
\* is true.
C14_CancelExactlyOnce ==
  \A r \in Requests :
    /\ Count(trace[r], "cancel") <= 1
    /\ (/\ enableCancellation /\ HasCurrent(r)
        /\ "finish" \notin fired[r]
        /\ fired[r] # {})
       => (Count(trace[r], "cancel") = 1 /\ IsCancelled(r))

\* C15: a context's cancelled flag is false when use creates it and until a
\* disconnect signal is handled, and once isCancelled() is true it stays true
\* through every later step, a second cancel() included.
C15_CancelledMonotonic ==
  [][\A r \in Requests :
       /\ (phase[r] = "new" /\ phase'[r] = "routed") => ~IsCancelled(r)'
       /\ fired'[r] = {} => ~IsCancelled(r)'
       /\ IsCancelled(r) => IsCancelled(r)']_vars

C15_Witness ==
  \E r \in Requests :
    /\ Count(trace[r], "cancel") = 2
    /\ fired[r] = {"aborted", "close"}
    /\ IsCancelled(r)

\* C16: once the response has finished, no 'close' or 'aborted' listener of
\* the request remains registered, and a disconnect signal arriving from then
\* on neither calls cancel() nor changes the context's cancelled flag.
C16_ListenersRemovedOnFinish ==
  [][\A r \in Requests :
       /\ "finish" \in fired'[r] => listeners'[r] \cap {"close", "aborted"} = {}
       /\ "finish" \in fired[r] =>
            /\ IsCancelled(r)' = IsCancelled(r)
            /\ Count(trace'[r], "cancel") = Count(trace[r], "cancel")]_vars

C16_Witness ==
  \E r \in Requests :
    /\ enableCancellation /\ HasCurrent(r)
    /\ Count(trace[r], "removeListener") = 1
    /\ fired[r] = {"finish", "close"}
    /\ ~IsCancelled(r)

\* C17: on an operation carrying two stacked RequireClaim decorators, whose
\* claim declaration is the effective one, StruktosAuthGuard does not allow a
\* principal that lacks one of the two claims.
C17_StackedRequireClaimBoth ==
  \A r \in Requests :
    (/\ AuthGuardDone(r) /\ ~IsPublic(meta[r])
     /\ Len(meta[r].op.applied) = 2
     /\ reqUser[r] # Undefined
     /\ \E i \in 1..2 : ~HoldsClaim(reqUser[r], meta[r].op.applied[i]))
    => outcome[r].kind # "allow"

\* A denial's text names the requirement q.
NamedBy(names, q) ==
  \E k \in 1..Len(names) :
    /\ names[k][1] = q.type
    /\ q.hasValue => names[k][2] = q.value

\* C18: a Forbidden denial names what is unmet: for the roles, the required
\* roles, none of which the principal holds; for the claims, in both
\* StruktosAuthGuard and StruktosClaimsGuard, a claim the principal lacks and
\* no claim it holds.
C18_ForbiddenNamesUnmet ==
  \A r \in Requests :
    LET ec == EffectiveClaims(meta[r])
        er == EffectiveRoles(meta[r])
    IN /\ (outcome[r].kind = "Forbidden" /\ outcome[r].what = "roles")
           => /\ outcome[r].names = [i \in 1..Len(er) |-> <<er[i]>>]
              /\ ~SharesRole(reqUser[r], er)
       /\ (outcome[r].kind = "Forbidden" /\ outcome[r].what = "claims")
           => \A i \in 1..Len(ec.list) :
                NamedBy(outcome[r].names, ec.list[i])
                  <=> ~HoldsClaim(reqUser[r], ec.list[i])
       /\ claimsOutcome[r].kind = "Forbidden"
           => \A i \in 1..Len(ec.list) :
                NamedBy(claimsOutcome[r].names, ec.list[i])
                  => ~HoldsClaim(PrincipalSeen(r), ec.list[i])

\* What StruktosAuthGuard owes a principal u (Undefined for none) on a
\* non-Public operation: the kind of its outcome.
OutcomeOwed(u, m) ==
  LET er == EffectiveRoles(m)
      ec == EffectiveClaims(m)
  IN IF ~RequirementExists(m) THEN "allow"
     ELSE IF u = Undefined THEN "Unauthenticated"
     ELSE IF \/ er # <<>> /\ ~SharesRole(u, er)
             \/ ec.has /\ \/ Range(UserClaims(u).list) = {}
                          \/ \E i \in 1..Len(ec.list) : ~HoldsClaim(u, ec.list[i])
            THEN "Forbidden"
            ELSE "allow"

\* C19: for a request outside any context scope, the accessors Ctx, TraceId,
\* CurrentUser, UserId and RequestTimestamp yield undefined and IsCancelled
\* yields false; StruktosAuthGuard takes the principal from request.user or
\* the provider, allows or denies (Unauthenticated, Forbidden) as the
\* requirements demand of that principal, and leaves the principal on the
\* request, writing no context record.
C19_NoScopeDegrades ==
  \A r \in Requests :
    ~HasCurrent(r) =>
      /\ Ctx(r, "user") = Undefined
      /\ Ctx(r, "roles") = Undefined
      /\ TraceId(r) = Undefined
      /\ CurrentUser(r) = Undefined
      /\ UserId(r) = Undefined
      /\ RequestTimestamp(r) = Undefined
      /\ IsCancelled(r) = FALSE
      /\ store[r] = EmptyRecord
      /\ (AuthGuardDone(r) /\ ~IsPublic(meta[r])) =>
           /\ settled[r] \in UserNames => reqUser[r] = settled[r]
           /\ outcome[r].kind = OutcomeOwed(reqUser[r], meta[r])

C19_Witness ==
  \E r \in Requests :
    /\ ~HasCurrent(r) /\ phase[r] = "allowed"
    /\ RequirementExists(meta[r])
    /\ settled[r] = "admin" /\ reqUser[r] = "admin"
    /\ outcome[r] = Allow
    /\ store[r] = EmptyRecord

\* C20: whenever a request's context holds a principal, its userId is that
\* principal's id and its roles are that principal's roles (roles that are
\* absent counting as the empty list).
C20_ContextDenormalised ==
  \A r \in Requests :
    (HasCurrent(r) /\ Current(r).user # Undefined) =>
      /\ Current(r).userId = UserIdOf(Current(r).user)
      /\ (IF Current(r).hasRoles THEN Current(r).roles ELSE <<>>)
           = UserRoles(Current(r).user).list

\* The principal lacks one of the effective claims, or has no claims at all.
ClaimsUnmet(u, ec) ==
  ec.has /\ \/ Range(UserClaims(u).list) = {}
            \/ \E i \in 1..Len(ec.list) : ~HoldsClaim(u, ec.list[i])

\* C21: StruktosAuthGuard decides in the order Public, principal, roles,
\* claims: a Public operation is allowed whatever else holds; with an effective
\* requirement and no principal the outcome is Unauthenticated, never Forbidden;
\* with the effective roles and the effective claims both unmet the denial is
\* the one for the roles.
C21_OrderOfChecks ==
  \A r \in Requests :
    AuthGuardDone(r) =>
      LET er == EffectiveRoles(meta[r])
          ec == EffectiveClaims(meta[r])
      IN /\ IsPublic(meta[r]) => outcome[r].kind = "allow"
         /\ (~IsPublic(meta[r]) /\ RequirementExists(meta[r]) /\ reqUser[r] = Undefined)
              => (outcome[r].kind = "Unauthenticated" /\ outcome[r].kind # "Forbidden")
         /\ outcome[r].kind = "Unauthenticated" => reqUser[r] = Undefined
         /\ (/\ ~IsPublic(meta[r]) /\ reqUser[r] # Undefined
             /\ er # <<>> /\ ~SharesRole(reqUser[r], er)
             /\ ClaimsUnmet(reqUser[r], ec))
              => (outcome[r].kind = "Forbidden" /\ outcome[r].what = "roles")

C21_Witness ==
  \E r \in Requests :
    /\ ~IsPublic(meta[r])
    /\ EffectiveRoles(meta[r]) = <<"Admin">>
    /\ EffectiveClaims(meta[r]).list = <<ClaimDeptEng>>
    /\ reqUser[r] = "john"
    /\ outcome[r].kind = "Forbidden" /\ outcome[r].what = "roles"

\* C22: use calls next() exactly once per request, as the last call of the
\* callback of run: with a context, after onContextCreated and after the
\* disconnect and finish listeners are registered, the scope being active;
\* without one, as the only call.  No later step calls it again.
C22_NextExactlyOnce ==
  [][\A r \in Requests :
       /\ Count(trace'[r], "next") = IF phase'[r] \in {"new", "idle"} THEN 0 ELSE 1
       /\ (phase[r] = "new" /\ phase'[r] # "new") =>
            LET t == trace'[r]
            IN /\ t[Len(t)] = "next"
               /\ HasCurrent(r)' =>
                    /\ IndexOf(t, "onContextCreated") < Len(t)
                    /\ IndexOf(t, "on:finish:destroyed") < Len(t)
                    /\ enableCancellation =>
                         /\ IndexOf(t, "on:close") < Len(t)
                         /\ IndexOf(t, "on:aborted") < Len(t)
                         /\ IndexOf(t, "on:finish:cleanup") < Len(t)
               /\ ~HasCurrent(r)' => t = <<"next">>]_vars

C22_Witness ==
  \E r \in Requests :
    /\ phase[r] = "responded"
    /\ ~HasCurrent(r)
    /\ trace[r] = <<"next">>

\* C23: with enableCancellation given as false, use registers no 'close' or
\* 'aborted' listener and no disconnect signal cancels the context; with the
\* option omitted it registers them as it does for true, and a signal before
\* the response finishes cancels the context.
C23_CancellationOption ==
  \A r \in Requests :
    /\ cancellationOption = "false" =>
         /\ listeners[r] \cap {"close", "aborted", "finish:cleanup"} = {}
         /\ Count(trace[r], "cancel") = 0
         /\ ~IsCancelled(r)
    /\ (cancellationOption \in {"omitted", "true"} /\ HasCurrent(r)
        /\ "finish" \notin fired[r]) =>
         /\ {"close", "aborted"} \subseteq listeners[r]
         /\ fired[r] # {} => IsCancelled(r)

C23_Witness ==
  \E r \in Requests :
    /\ cancellationOption = "false"
    /\ HasCurrent(r)
    /\ fired[r] = {"aborted", "close"}
    /\ ~IsCancelled(r)

\* C24: on an operation declared with Auth(options) and nothing else,
\* StruktosAuthGuard allows only a principal meeting every requirement given
\* in options: one of the roles, the single claim, and each of the claims.
C24_AuthAllRequirements ==
  \A r \in Requests : \A o \in AuthOptionsUsed :
    (/\ meta[r].op = Auth(o, NoMetadata)
     /\ ~IsPublic(meta[r])
     /\ outcome[r].kind = "allow")
    => /\ reqUser[r] # Undefined
       /\ o.roles.has => SharesRole(reqUser[r], o.roles.list)
       /\ o.claim.has => HoldsClaim(reqUser[r], o.claim.req)
       /\ o.claims.has =>
            \A i \in 1..Len(o.claims.list) : HoldsClaim(reqUser[r], o.claims.list[i])

\* The messages of the logger calls made for a request, in order.
LogMessages(r) == [i \in 1..Len(log[r]) |-> log[r][i].message]

\* C25: for a request through StruktosContextInterceptor with a logger,
\* 'Request started' is logged first and once; 'Request completed' and
\* 'Request failed' are never both logged, and once the handler's stream has
\* ended exactly one of them is, 'Request completed' if it completed and
\* 'Request failed' with the handler's error if it failed.  With or without a
\* logger the caller receives what the handler produced, the error unchanged,
\* and without one nothing is logged.
C25_OneOutcomeLogged ==
  \A r \in Requests :
    LET completed == Count(LogMessages(r), "Request completed")
        failed    == Count(LogMessages(r), "Request failed")
        last      == handled[r][Len(handled[r])]
    IN /\ delivered[r] = handled[r]
       /\ ~logger => log[r] = <<>>
       /\ (logger /\ phase[r] = "handling") =>
            /\ LogMessages(r)[1] = "Request started"
            /\ Count(LogMessages(r), "Request started") = 1
       /\ completed + failed <= 1
       /\ (logger /\ phase[r] = "responded" /\ handled[r] # <<>>) =>
            /\ completed + failed = 1
            /\ completed = 1 <=> last.kind = "complete"
            /\ failed = 1 <=> last.kind = "error"
            /\ last.kind = "error" => log[r][Len(log[r])].error = last.error

\* C26: on an operation marked Public at the operation or the group level,
\* StruktosRolesGuard and StruktosClaimsGuard allow, with or without a
\* principal, whatever roles or claims are declared at the other level.
C26_PublicHonouredByAll ==
  \A r \in Requests :
    IsPublic(meta[r]) =>
      /\ rolesOutcome[r].kind \in {"pending", "allow"}
      /\ claimsOutcome[r].kind \in {"pending", "allow"}

\* What StruktosRolesGuard followed by StruktosClaimsGuard yields for request
\* r as it stands: the first denial, else allow.
ChainKind(r) ==
  LET ro == RolesGuardDecide(RolesGuardGetUser(r), meta[r])
  IN IF ro.kind # "allow" THEN ro.kind
     ELSE ClaimsGuardDecide(ClaimsGuardGetUser(r), meta[r]).kind

\* C27: for a principal already in the context and a non-Public operation, a
\* run of StruktosAuthGuard ends as StruktosRolesGuard followed by
\* StruktosClaimsGuard would on the same request: allow when both allow, else
\* the same kind of denial; and where the two have run and allowed, it allows.
C27_UnifiedEqualsChain ==
  [][\A r \in Requests :
       (/\ ContextUser(r) # Undefined
        /\ ~IsPublic(meta[r])
        /\ outcome[r] = Pending /\ outcome'[r] # Pending)
       => /\ outcome'[r].kind = ChainKind(r)
          /\ (rolesOutcome[r] = Allow /\ claimsOutcome[r] = Allow)
               => outcome'[r] = Allow]_vars

C29_GuardRunsStable ==
  [][\A r \in Requests :
       (/\ outcome[r] = Allow /\ ~IsPublic(meta[r])
        /\ phase[r] = "allowed"
        /\ (PrincipalSeen(r) # Undefined \/ settled[r] \in UserNames))
       => /\ reqUser[r] # Undefined
          /\ PrincipalSeen(r) = reqUser[r]
          /\ PrincipalSeen(r)' = PrincipalSeen(r)
          /\ outcome'[r] = Allow
          /\ rolesOutcome'[r] \in {Pending, Allow}
          /\ claimsOutcome'[r] \in {Pending, Allow}
          /\ phase'[r] = "allowed"
          /\ providerCalls'[r] = providerCalls[r]
          /\ store' = store
          /\ reqUser' = reqUser]_vars

C29_Witness ==
  \E r \in Requests :
    /\ outcome[r] = Allow /\ ~IsPublic(meta[r])
    /\ RequirementExists(meta[r])
    /\ ~HasCurrent(r)
    /\ providerCalls[r] = 1
    /\ settled[r] = "admin"
    /\ reqUser[r] = "admin"
    /\ guardRuns[r] = 2
    /\ rolesOutcome[r] = Allow
    /\ claimsOutcome[r] = Allow

\* C30: where the operation declares an empty role list and the group a
\* non-empty one, no claim requirement applies and nothing is Public,
\* StruktosAuthGuard and StruktosRolesGuard allow, with or without a principal.
C30_EmptyRolesOverride ==
  \A r \in Requests :
    (/\ meta[r].op.roles.has /\ meta[r].op.roles.list = <<>>
     /\ meta[r].grp.roles.list # <<>>
     /\ ~EffectiveClaims(meta[r]).has
     /\ ~IsPublic(meta[r]))
    => /\ AuthGuardDone(r) => outcome[r] = Allow
       /\ rolesOutcome[r] \in {Pending, Allow}
       /\ claimsOutcome[r] \in {Pending, Allow}

C30_Witness ==
  \E r \in Requests :
    /\ meta[r].op.roles.has /\ meta[r].op.roles.list = <<>>
    /\ meta[r].grp.roles.list = <<"Admin">>
    /\ ~EffectiveClaims(meta[r]).has
    /\ PrincipalSeen(r) = Undefined
    /\ outcome[r] = Allow
    /\ rolesOutcome[r] = Allow

====
